---- MODULE Spec2Model ----
(***************************************************************************)
(* A model of sqlalchemy_utils/view.py: the View entity, the CreateView /  *)
(* DropView / RefreshMaterializedView compilers, the factory functions and *)
(* the lifecycle hooks they register on a MetaData container.              *)
(*                                                                         *)
(* SQL text is modelled as a sequence of string pieces: every slot of a    *)
(* Python format string contributes the pieces of its argument, and an     *)
(* empty string contributes no piece.                                      *)
(***************************************************************************)
EXTENDS Integers, Sequences, FiniteSets, TLC

VARIABLES
    views,      \* View entities that exist: id -> record, or NoView
    vtag,       \* the class attribute View.__visit_name__
    err,        \* the exception the last operation raised, or "none"
    out,        \* the last compilation: its inputs and the text produced
    call,       \* the arguments of the factory call that built the view
    meta,       \* the MetaData container: tables, member views, listeners
    pass,       \* the create_all / drop_all pass in progress
    log,        \* DDL statements executed on the connection, in order
    pc,         \* position of each thread inside View.create_view/drop_view
    session     \* the calls refresh_materialized_view made on the session

vars == <<views, vtag, err, out, call, meta, pass, log, pc, session>>

(***************************** bounds **************************************)
NumViews == 2
MaxCalls == 2
NumThreads == 2

ViewIds == 1..NumViews
NoView == [absent |-> TRUE]
NoOut == [kind |-> "none"]
NoCall == [fn |-> "none"]
NoPass == [kind |-> "none", stage |-> "done"]
NoMeta == [tables |-> {}, members |-> {}, after_create |-> <<>>, before_drop |-> <<>>]
NoSession == [dialect |-> "postgresql", args |-> <<>>, todo |-> <<>>, at |-> "idle", trace |-> <<>>]

Range(s) == {s[i] : i \in DOMAIN s}

(************************* the View entity *********************************)
\* A selectable: the ordered output columns of the query and the fragments
\* of its SQL; a fragment is literal text or a bound parameter.
Txt(s) == [bind |-> FALSE, s |-> s]
Bind(v) == [bind |-> TRUE, s |-> v]
Col(n, pk) == [name |-> n, primary_key |-> pk]

SelId == [cols |-> <<Col("id", TRUE)>>, sql |-> <<Txt("SELECT t.id FROM t")>>]
SelBound == [cols |-> <<Col("a", FALSE), Col("b", FALSE)>>,
             sql |-> <<Txt("SELECT t.a, t.b FROM t WHERE t.a > "), Bind("5")>>]
Selectables == {SelId, SelBound}

\* The attributes of a freshly constructed View.
\* cascade is not an attribute of Table nor of View: it exists only once
\* somebody assigned it.  <<>> stands for its absence, <<b>> for the value b.
\* options is the dialect option bag: a set of <<dialect, key, value>>.
\* columns are the Column arguments, each [name, key, primary_key];
\* primary_key is the set of keys of the table's primary-key constraint and
\* synthesized tells that the constraint was appended after construction.
NewView(name, selectable, materialized, replace, options, columns, indexes) ==
    [name |-> name, selectable |-> selectable,
     materialized |-> materialized, replace |-> replace,
     cascade |-> <<>>, options |-> options,
     columns |-> columns, indexes |-> indexes,
     primary_key |-> {columns[i].key : i \in {j \in DOMAIN columns : columns[j].primary_key}},
     synthesized |-> FALSE]

\* View.__init__: Table.__init__ first, then the mutual-exclusion check.
InitRaises(materialized, replace) == materialized /\ replace

\* Table.__init__ registers the entity in the container it is given; when
\* __init__ raises, the registration is undone and no entity exists.
Register(md, id) == IF md = "container" THEN [meta EXCEPT !.members = @ \cup {id}] ELSE meta

Construct(id, name, md, selectable, materialized, replace) ==
    /\ views[id] = NoView
    /\ IF InitRaises(materialized, replace)
         THEN /\ err' = "ValueError"
              /\ UNCHANGED <<views, meta>>
         ELSE /\ err' = "none"
              /\ views' = [views EXCEPT ![id] =
                    NewView(name, selectable, materialized, replace, {}, <<>>, {})]
              /\ meta' = Register(md, id)
    /\ UNCHANGED <<vtag, out, call, pass, log, pc, session>>

\* The three property setters store the value and check nothing.
SetSelectable(id, value) ==
    /\ views[id] # NoView
    /\ views' = [views EXCEPT ![id].selectable = value]
    /\ err' = "none"
    /\ UNCHANGED <<vtag, out, call, meta, pass, log, pc, session>>

SetMaterialized(id, value) ==
    /\ views[id] # NoView
    /\ views' = [views EXCEPT ![id].materialized = value]
    /\ err' = "none"
    /\ UNCHANGED <<vtag, out, call, meta, pass, log, pc, session>>

SetReplace(id, value) ==
    /\ views[id] # NoView
    /\ views' = [views EXCEPT ![id].replace = value]
    /\ err' = "none"
    /\ UNCHANGED <<vtag, out, call, meta, pass, log, pc, session>>

InitCommon ==
    /\ views = [i \in ViewIds |-> NoView]
    /\ vtag = "table"
    /\ err = "none"
    /\ out = NoOut
    /\ call = [i \in ViewIds |-> NoCall]
    /\ meta = NoMeta
    /\ pass = NoPass
    /\ log = <<>>
    /\ pc = <<>>
    /\ session = NoSession

EntityNext ==
    \/ \E id \in ViewIds, md \in {"own", "container"}, s \in Selectables,
          m \in BOOLEAN, r \in BOOLEAN :
          Construct(id, "v1", md, s, m, r)
    \/ \E id \in ViewIds, s \in Selectables : SetSelectable(id, s)
    \/ \E id \in ViewIds, b \in BOOLEAN : SetMaterialized(id, b)
    \/ \E id \in ViewIds, b \in BOOLEAN : SetReplace(id, b)

SpecEntity == InitCommon /\ [][EntityNext]_vars

\* C2: materialized and replace are mutually exclusive on every View:
\* construction with both true raises the configuration error, and no View
\* reachable by construction and attribute assignments has both flags true.
C2_MutuallyExclusive ==
    \A id \in ViewIds :
        views[id] # NoView => ~(views[id].materialized /\ views[id].replace)

(******************* statement objects and compilers ***********************)
Dialects == {"postgresql", "sqlite", "mysql"}
Names == {"v1", "select", "My View"}

\* dialect.identifier_preparer.quote: the name between the dialect's quote
\* characters when it is a reserved word or holds characters that are not
\* legal in a bare identifier, the bare name otherwise.
\* The pieces "<dq>" and "<bt>" stand for the double-quote character and the
\* backtick.
QuoteChar(dialect) == IF dialect = "mysql" THEN "<bt>" ELSE "<dq>"
RequiresQuotes(name) == name \in {"select", "My View"}
Quote(dialect, name) ==
    IF RequiresQuotes(name)
      THEN <<QuoteChar(dialect), name, QuoteChar(dialect)>>
      ELSE <<name>>

\* sql_compiler.process(selectable, literal_binds): a bound parameter is
\* rendered as its literal value when literal_binds, as a placeholder
\* otherwise.
RECURSIVE Process(_, _)
Process(sql, literal_binds) ==
    IF sql = <<>> THEN <<>>
    ELSE LET f == Head(sql)
         IN  <<IF f.bind /\ ~literal_binds THEN ":param" ELSE f.s>>
               \o Process(Tail(sql), literal_binds)

\* element.dialect_options.get(dialect, {}).get(key, {}): the value stored
\* in the bag under that namespace and key, the empty mapping otherwise.
\* A storage-parameter mapping is a sequence of <<key, value>> in insertion
\* order.
OptionGet(options, dialect, key) ==
    IF \E o \in options : o[1] = dialect /\ o[2] = key
      THEN (CHOOSE o \in options : o[1] = dialect /\ o[2] = key)[3]
      ELSE <<>>

\* ", ".join(["%s = %s" % item for item in withclause.items()])
RECURSIVE JoinItems(_)
JoinItems(items) ==
    IF items = <<>> THEN <<>>
    ELSE <<Head(items)[1], " = ", Head(items)[2]>>
           \o (IF Tail(items) = <<>> THEN <<>> ELSE <<", ">> \o JoinItems(Tail(items)))

CreateView(element, if_not_exists) == [element |-> element, if_not_exists |-> if_not_exists]
DropView(element, if_exists) == [element |-> element, if_exists |-> if_exists]

Compiled(text) == [error |-> "none", text |-> text]
Raised(e) == [error |-> e, text |-> <<>>]

\* The namespace compile_create_materialized_view reads the storage
\* parameters from: always "postgresql", whatever dialect compiles.
WithNamespace(dialect) == "postgresql"

ReplaceTextSwapped(element) == IF element.materialized THEN <<"OR REPLACE ">> ELSE <<>>
ReplaceText(element) == IF element.replace THEN <<"OR REPLACE ">> ELSE <<>>

compile_create_materialized_view(create, dialect) ==
    LET element == create.element
        withclause == OptionGet(element.options, WithNamespace(dialect), "with")
        withclause_text ==
            IF withclause # <<>>
              THEN <<" WITH (">> \o JoinItems(withclause) \o <<")">>
              ELSE <<>>
    IN  Compiled(<<"CREATE ">>
                 \o ReplaceText(element)
                 \o (IF element.materialized THEN <<"MATERIALIZED ">> ELSE <<>>)
                 \o <<"VIEW ">>
                 \o Quote(dialect, element.name)
                 \o withclause_text
                 \o <<" AS ">>
                 \o Process(element.selectable.sql, TRUE))

\* Reading element.cascade raises AttributeError when the attribute was
\* never assigned.
compile_drop_materialized_view(drop, dialect) ==
    LET element == drop.element
    IN  IF element.cascade = <<>>
          THEN Raised("AttributeError")
          ELSE Compiled(<<"DROP ">>
                        \o (IF element.materialized THEN <<"MATERIALIZED ">> ELSE <<>>)
                        \o <<"VIEW IF EXISTS ">>
                        \o Quote(dialect, element.name)
                        \o <<" ">>
                        \o (IF element.cascade[1] THEN <<"CASCADE">> ELSE <<>>))

RefreshMaterializedView(name, concurrently) == [name |-> name, concurrently |-> concurrently]

ConcurrentlyText(element) == IF element.concurrently THEN <<"CONCURRENTLY ">> ELSE <<>>

compile_refresh_materialized_view(element, dialect) ==
    <<"REFRESH MATERIALIZED VIEW ">>
      \o ConcurrentlyText(element)
      \o Quote(dialect, element.name)

(**************************** factories ************************************)
\* get_columns(selectable): the output columns of the query, in its order.
get_columns(selectable) == selectable.cols

\* aliases.get(name, name); an alias map is a set of <<name, alias>>.
AliasGet(aliases, name) ==
    IF \E a \in aliases : a[1] = name
      THEN (CHOOSE a \in aliases : a[1] = name)[2]
      ELSE name

\* The Column arguments built from the query's columns.
DerivedColumns(selectable, aliases) ==
    [i \in DOMAIN get_columns(selectable) |->
        [name |-> get_columns(selectable)[i].name,
         key |-> AliasGet(aliases, get_columns(selectable)[i].name),
         primary_key |-> get_columns(selectable)[i].primary_key]]

\* What PrimaryKeyConstraint(*names) is given: the columns' names.
ConstraintNames(selectable, aliases) ==
    {get_columns(selectable)[i].name : i \in DOMAIN get_columns(selectable)}

\* view.append_constraint(PrimaryKeyConstraint(*names)): each string is
\* looked up in the table's column collection, which is indexed by key; a
\* string that is no key of the collection raises.
append_constraint(view, names) ==
    LET keys == {view.columns[i].key : i \in DOMAIN view.columns}
    IN  IF names \subseteq keys
          THEN [error |-> "none",
                view |-> [view EXCEPT !.primary_key = names, !.synthesized = TRUE]]
          ELSE [error |-> "ConstraintColumnNotFoundError", view |-> NoView]

create_view_from_selectable(name, selectable, indexes, aliases, materialized, replace, options) ==
    IF InitRaises(materialized, replace)
      THEN [error |-> "ValueError", view |-> NoView]
      ELSE LET view == NewView(name, selectable, materialized, replace, options,
                               DerivedColumns(selectable, aliases), indexes)
           IN  IF ~ \E i \in DOMAIN get_columns(selectable) : get_columns(selectable)[i].primary_key
                 THEN append_constraint(view, ConstraintNames(selectable, aliases))
                 ELSE [error |-> "none", view |-> view]

\* The listeners a factory registers on the container.
Hook(fn, id) == [fn |-> fn, view |-> id]

\* after_create: create_view, then create_indexes; before_drop: drop_view.
RegisterHooks(md, id) ==
    [md EXCEPT !.after_create = @ \o <<Hook("create_view", id), Hook("create_indexes", id)>>,
               !.before_drop = @ \o <<Hook("drop_view", id)>>]

\* The part of the state a factory call reads and writes.
World == [views |-> views, meta |-> meta, call |-> call, err |-> err]

CallRecord(fn, selectable, aliases, materialized, replace, cascade_on_drop) ==
    [fn |-> fn, selectable |-> selectable, aliases |-> aliases,
     materialized |-> materialized, replace |-> replace,
     cascade_on_drop |-> cascade_on_drop]

\* A direct call of create_view_from_selectable; md tells whether the
\* caller's container is passed as metadata or none is.
from_selectable(w, id, name, selectable, indexes, md, aliases, materialized, replace, options) ==
    LET res == create_view_from_selectable(name, selectable, indexes, aliases,
                                           materialized, replace, options)
    IN  [views |-> IF res.error = "none" THEN [w.views EXCEPT ![id] = res.view] ELSE w.views,
         meta |-> IF res.error = "none" /\ md = "container"
                    THEN [w.meta EXCEPT !.members = @ \cup {id}] ELSE w.meta,
         call |-> [w.call EXCEPT ![id] =
                     CallRecord("create_view_from_selectable", selectable, aliases,
                                materialized, replace, FALSE)],
         err |-> res.error]

\* create_view: cascade_on_drop is accepted and used nowhere.
create_view(w, id, name, selectable, cascade_on_drop, replace, indexes, aliases, options) ==
    LET res == create_view_from_selectable(name, selectable, indexes, aliases,
                                           FALSE, replace, options)
    IN  [views |-> IF res.error = "none" THEN [w.views EXCEPT ![id] = res.view] ELSE w.views,
         meta |-> IF res.error = "none" THEN RegisterHooks(w.meta, id) ELSE w.meta,
         call |-> [w.call EXCEPT ![id] =
                     CallRecord("create_view", selectable, aliases, FALSE, replace,
                                cascade_on_drop)],
         err |-> res.error]

create_materialized_view(w, id, name, selectable, indexes, aliases, options) ==
    LET res == create_view_from_selectable(name, selectable, indexes, aliases,
                                           TRUE, FALSE, options)
    IN  [views |-> IF res.error = "none" THEN [w.views EXCEPT ![id] = res.view] ELSE w.views,
         meta |-> IF res.error = "none" THEN RegisterHooks(w.meta, id) ELSE w.meta,
         call |-> [w.call EXCEPT ![id] =
                     CallRecord("create_materialized_view", selectable, aliases, TRUE, FALSE,
                                FALSE)],
         err |-> res.error]

Becomes(w) ==
    /\ views' = w.views
    /\ meta' = w.meta
    /\ call' = w.call
    /\ err' = w.err

Idle == pass.stage \in {"done", "raised"}

CallFromSelectable(id, name, selectable, indexes, md, aliases, materialized, replace, options) ==
    /\ call[id] = NoCall /\ views[id] = NoView /\ Idle
    /\ Becomes(from_selectable(World, id, name, selectable, indexes, md, aliases,
                               materialized, replace, options))
    /\ UNCHANGED <<vtag, out, pass, log, pc, session>>

CallCreateView(id, name, selectable, cascade_on_drop, replace, indexes, aliases, options) ==
    /\ call[id] = NoCall /\ views[id] = NoView /\ Idle
    /\ Becomes(create_view(World, id, name, selectable, cascade_on_drop, replace,
                           indexes, aliases, options))
    /\ UNCHANGED <<vtag, out, pass, log, pc, session>>

CallCreateMaterializedView(id, name, selectable, indexes, aliases, options) ==
    /\ call[id] = NoCall /\ views[id] = NoView /\ Idle
    /\ Becomes(create_materialized_view(World, id, name, selectable, indexes, aliases, options))
    /\ UNCHANGED <<vtag, out, pass, log, pc, session>>

\* Queries and alias maps of the factory specification.  No alias map makes
\* two columns of one query share a key.
SelUsers == [cols |-> <<Col("id", TRUE), Col("name", FALSE), Col("email", FALSE)>>,
             sql |-> <<Txt("SELECT u.id, u.name, u.email FROM u")>>]
SelFull == [cols |-> <<Col("full_name", FALSE)>>, sql |-> <<Txt("SELECT u.full_name FROM u")>>]
SelFullPk == [cols |-> <<Col("full_name", TRUE), Col("x", FALSE)>>,
              sql |-> <<Txt("SELECT u.full_name, u.x FROM u")>>]
Queries == {SelId, SelBound, SelUsers, SelFull, SelFullPk}
AliasMaps == {{}, {<<"full_name", "fn">>}, {<<"a", "x">>}, {<<"name", "n">>, <<"email", "e">>}}

FactoryNext ==
    \/ \E id \in ViewIds, q \in Queries, md \in {"own", "container"}, a \in AliasMaps,
          m \in BOOLEAN, r \in BOOLEAN :
          CallFromSelectable(id, "v1", q, {}, md, a, m, r, {})
    \/ \E id \in ViewIds, q \in Queries, a \in AliasMaps, c \in BOOLEAN, r \in BOOLEAN :
          CallCreateView(id, "v1", q, c, r, {}, a, {})
    \/ \E id \in ViewIds, q \in Queries, a \in AliasMaps :
          CallCreateMaterializedView(id, "v1", q, {}, a, {})

SpecFactory == InitCommon /\ [][FactoryNext]_vars

\* C7: create_view_from_selectable yields a View whose columns are the
\* query's columns in order, each under its alias (or own name) with the
\* source's primary-key flag; with a primary-key source column the view's
\* primary key is exactly those columns and nothing is synthesized; with
\* none, construction succeeds and a primary key over exactly all derived
\* columns is synthesized.
C7_DerivedView ==
    \A id \in ViewIds :
        (call[id].fn = "create_view_from_selectable"
           /\ ~(call[id].materialized /\ call[id].replace)) =>
        /\ views[id] # NoView
        /\ LET q == call[id].selectable.cols
               v == views[id]
               exposed(i) == IF \E a \in call[id].aliases : a[1] = q[i].name
                               THEN (CHOOSE a \in call[id].aliases : a[1] = q[i].name)[2]
                               ELSE q[i].name
           IN  /\ Len(v.columns) = Len(q)
               /\ \A i \in DOMAIN q :
                     /\ v.columns[i].name = q[i].name
                     /\ v.columns[i].key = exposed(i)
                     /\ v.columns[i].primary_key = q[i].primary_key
               /\ IF \E i \in DOMAIN q : q[i].primary_key
                    THEN /\ ~v.synthesized
                         /\ v.primary_key = {exposed(i) : i \in {j \in DOMAIN q : q[j].primary_key}}
                    ELSE /\ v.synthesized
                         /\ v.primary_key = {exposed(i) : i \in DOMAIN q}

(********************** compiling the statements ***************************)
\* CreateView(view, if_not_exists) compiled for a dialect.
CompileCreate(id, dialect, if_not_exists) ==
    /\ views[id] # NoView
    /\ LET res == compile_create_materialized_view(CreateView(views[id], if_not_exists), dialect)
       IN  /\ out' = [kind |-> "create", view |-> id, dialect |-> dialect,
                      flag |-> if_not_exists, error |-> res.error, text |-> res.text]
           /\ err' = res.error
    /\ UNCHANGED <<views, vtag, call, meta, pass, log, pc, session>>

\* DropView(view, if_exists) compiled for a dialect.
CompileDrop(id, dialect, if_exists) ==
    /\ views[id] # NoView
    /\ LET res == compile_drop_materialized_view(DropView(views[id], if_exists), dialect)
       IN  /\ out' = [kind |-> "drop", view |-> id, dialect |-> dialect,
                      flag |-> if_exists, error |-> res.error, text |-> res.text]
           /\ err' = res.error
    /\ UNCHANGED <<views, vtag, call, meta, pass, log, pc, session>>

Fillfactor == <<"fillfactor", "70">>
Autovacuum == <<"autovacuum_enabled", "false">>
OptionBags ==
    {{},
     {<<"postgresql", "with", <<>>>>},
     {<<"postgresql", "with", <<Fillfactor>>>>},
     {<<"postgresql", "with", <<Fillfactor, Autovacuum>>>>},
     {<<"mysql", "with", <<Fillfactor>>>>}}

\* The world before any factory call.
World0 ==
    [views |-> [i \in ViewIds |-> NoView], meta |-> NoMeta,
     call |-> [i \in ViewIds |-> NoCall], err |-> "none"]

\* The views of the compile specification: view 1, built by one factory
\* call that succeeded.
BuiltWorlds ==
    LET S == {SelId, SelBound}
    IN  {create_view(World0, 1, n, q, c, r, {}, {}, o) :
            n \in Names, q \in S, c \in BOOLEAN, r \in BOOLEAN, o \in OptionBags}
        \cup {create_materialized_view(World0, 1, n, q, {}, {}, o) :
            n \in Names, q \in S, o \in OptionBags}
        \cup {from_selectable(World0, 1, n, q, {}, "own", {}, m, FALSE, o) :
            n \in Names, q \in S, m \in BOOLEAN, o \in OptionBags}

CompileInit ==
    /\ \E w \in BuiltWorlds :
          /\ views = w.views
          /\ meta = w.meta
          /\ call = w.call
          /\ err = w.err
    /\ vtag = "table"
    /\ out = NoOut
    /\ pass = NoPass
    /\ log = <<>>
    /\ pc = <<>>
    /\ session = NoSession

CompileNext ==
    \/ \E d \in Dialects, f \in BOOLEAN : CompileCreate(1, d, f)
    \/ \E d \in Dialects, f \in BOOLEAN : CompileDrop(1, d, f)

SpecCompile == CompileInit /\ [][CompileNext]_vars

HasWith(text) == " WITH (" \in Range(text)
IndexOf(text, piece) == CHOOSE i \in DOMAIN text : text[i] = piece

\* C3: the drop statement of a view built by create_view is
\* DROP [MATERIALIZED ]VIEW IF EXISTS <name> followed by CASCADE exactly
\* when cascade_on_drop is true, whatever the if-exists flag is.
C3_DropText ==
    (out.kind = "drop" /\ call[out.view].fn = "create_view") =>
        /\ out.error = "none"
        /\ LET v == views[out.view]
               t == out.text
               m == IF v.materialized THEN 1 ELSE 0
               q == Quote(out.dialect, v.name)
           IN  /\ Len(t) >= 2 + m + Len(q)
               /\ t[1] = "DROP "
               /\ (v.materialized => t[2] = "MATERIALIZED ")
               /\ ("MATERIALIZED " \in Range(t)) <=> v.materialized
               /\ t[2 + m] = "VIEW IF EXISTS "
               /\ SubSeq(t, 3 + m, 2 + m + Len(q)) = q
               /\ ("CASCADE" \in Range(t)) <=> call[out.view].cascade_on_drop
               /\ (call[out.view].cascade_on_drop => t[Len(t)] = "CASCADE")

\* C4: the WITH clause is in the compiled CreateView text exactly when the
\* active dialect is postgresql and the view's option bag holds a non-empty
\* set of storage parameters for it; when present it stands after the quoted
\* name and before AS.
C4_WithClause ==
    out.kind = "create" =>
        LET v == views[out.view]
            t == out.text
            stored == IF \E o \in v.options : o[1] = out.dialect /\ o[2] = "with"
                        THEN (CHOOSE o \in v.options : o[1] = out.dialect /\ o[2] = "with")[3]
                        ELSE <<>>
        IN  /\ HasWith(t) <=> (out.dialect = "postgresql" /\ stored # <<>>)
            /\ HasWith(t) =>
                  /\ IndexOf(t, " WITH (") = IndexOf(t, "VIEW ") + Len(Quote(out.dialect, v.name)) + 1
                  /\ IndexOf(t, " WITH (") < IndexOf(t, " AS ")

refresh_steps_execute_first == <<"execute", "flush">>
refresh_steps == <<"flush", "execute">>

RefreshCall(name, concurrently) ==
    /\ session.at \in {"idle", "returned", "raised"}
    /\ Len(session.args) < MaxCalls
    /\ session' = [session EXCEPT
                     !.args = Append(@, RefreshMaterializedView(name, concurrently)),
                     !.todo = refresh_steps,
                     !.at = "running"]
    /\ err' = "none"
    /\ UNCHANGED <<views, vtag, out, call, meta, pass, log, pc>>

\* One session method call; an exception leaves the function at once.
SessionStep(op, ok, text) ==
    /\ session.at = "running"
    /\ session.todo # <<>>
    /\ Head(session.todo) = op
    /\ session' = [session EXCEPT
                     !.trace = Append(@, [call |-> Len(session.args), op |-> op,
                                          ok |-> ok, text |-> text]),
                     !.todo = IF ok THEN Tail(@) ELSE <<>>,
                     !.at = IF ~ok THEN "raised"
                            ELSE IF Tail(session.todo) = <<>> THEN "returned"
                            ELSE "running"]
    /\ err' = IF ok THEN "none" ELSE "SessionError"
    /\ UNCHANGED <<views, vtag, out, call, meta, pass, log, pc>>

Flush(ok) == SessionStep("flush", ok, <<>>)

Execute(ok) ==
    SessionStep("execute", ok,
                compile_refresh_materialized_view(session.args[Len(session.args)],
                                                  session.dialect))

RefreshInit ==
    /\ views = [i \in ViewIds |-> NoView]
    /\ vtag = "table"
    /\ err = "none"
    /\ out = NoOut
    /\ call = [i \in ViewIds |-> NoCall]
    /\ meta = NoMeta
    /\ pass = NoPass
    /\ log = <<>>
    /\ pc = <<>>
    /\ \E d \in Dialects : session = [NoSession EXCEPT !.dialect = d]

RefreshNext ==
    \/ \E n \in Names, c \in BOOLEAN : RefreshCall(n, c)
    \/ \E ok \in BOOLEAN : Flush(ok)
    \/ \E ok \in BOOLEAN : Execute(ok)

SpecRefresh == RefreshInit /\ [][RefreshNext]_vars

CallEntries(k, op) == {i \in DOMAIN session.trace :
                          session.trace[i].call = k /\ session.trace[i].op = op}
CallFinished(k) == k < Len(session.args) \/ session.at \in {"returned", "raised"}

\* C6: every call of refresh_materialized_view flushes the session exactly
\* once and then executes exactly one statement, the flush before the
\* execute; the statement is REFRESH MATERIALIZED VIEW, CONCURRENTLY exactly
\* when concurrently is true, and the quoted name; when the flush fails no
\* execute is issued.
C6_FlushThenExecute ==
    \A k \in DOMAIN session.args :
        LET F == CallEntries(k, "flush")
            E == CallEntries(k, "execute")
            a == session.args[k]
            q == Quote(session.dialect, a.name)
        IN  /\ Cardinality(F) <= 1
            /\ Cardinality(E) <= 1
            /\ \A e \in E : \E f \in F : f < e /\ session.trace[f].ok
            /\ CallFinished(k) =>
                  /\ Cardinality(F) = 1
                  /\ \A f \in F : Cardinality(E) = (IF session.trace[f].ok THEN 1 ELSE 0)
            /\ \A e \in E :
                  LET t == session.trace[e].text
                      c == IF a.concurrently THEN 1 ELSE 0
                  IN  /\ Len(t) = 1 + c + Len(q)
                      /\ t[1] = "REFRESH MATERIALIZED VIEW "
                      /\ (a.concurrently => t[2] = "CONCURRENTLY ")
                      /\ ("CONCURRENTLY " \in Range(t)) <=> a.concurrently
                      /\ SubSeq(t, 2 + c, Len(t)) = q

C6_Witness ==
    /\ Len(session.args) = 2
    /\ session.at = "raised"
    /\ CallEntries(2, "execute") = {}
    /\ \E f \in CallEntries(2, "flush") : ~session.trace[f].ok
    /\ \E e \in CallEntries(1, "execute") : "CONCURRENTLY " \in Range(session.trace[e].text)

(********************* DDL visitors and View methods ***********************)
\* A statement executed on the connection.
ViewObj(id) == [kind |-> "view", id |-> id]
TableObj(name) == [kind |-> "table", name |-> name]
IndexObj(name) == [kind |-> "index", name |-> name]
Stmt(class, target) == [stmt |-> class, target |-> target]

RECURSIVE SetToSeq(_)
SetToSeq(S) == IF S = {} THEN <<>>
               ELSE LET x == CHOOSE x \in S : TRUE IN <<x>> \o SetToSeq(S \ {x})

\* traverse_single: the visitor's method named after the element's
\* __visit_name__, none when the visitor has no such method.  Only the two
\* Ext visitors define visit_view.
VisitMethod(visitor, tag) ==
    IF tag = "view"
      THEN IF visitor \in {"ExtSchemaGenerator", "ExtSchemaDropper"} THEN "visit_view" ELSE "none"
      ELSE "visit_table"

Ran(emitted, raised) == [emitted |-> emitted, raised |-> raised]

\* The connection compiles with its engine's dialect.
ConnDialect == "postgresql"

\* visit_view of the two Ext visitors: the statement is built, compiled and
\* executed; ok tells whether the database accepted it.
visit_view(visitor, id, ok) ==
    LET res == IF visitor = "ExtSchemaGenerator"
                 THEN compile_create_materialized_view(CreateView(views[id], FALSE), ConnDialect)
                 ELSE compile_drop_materialized_view(DropView(views[id], FALSE), ConnDialect)
        class == IF visitor = "ExtSchemaGenerator" THEN "CreateView" ELSE "DropView"
    IN  IF res.error # "none" THEN Ran(<<>>, res.error)
        ELSE Ran(<<Stmt(class, ViewObj(id))>>, IF ok THEN "none" ELSE "ExecutionError")

\* visit_table of SchemaGenerator / SchemaDropper applied to a View: table
\* DDL, and on creation the DDL of the indexes attached to it.
visit_table(visitor, id, ok) ==
    IF visitor \in {"ExtSchemaGenerator", "SchemaGenerator"}
      THEN IF ok
             THEN Ran(<<Stmt("CreateTable", ViewObj(id))>>
                        \o [i \in 1..Cardinality(views[id].indexes) |->
                              Stmt("CreateIndex", IndexObj(SetToSeq(views[id].indexes)[i]))],
                      "none")
             ELSE Ran(<<Stmt("CreateTable", ViewObj(id))>>, "ExecutionError")
      ELSE Ran(<<Stmt("DropTable", ViewObj(id))>>, IF ok THEN "none" ELSE "ExecutionError")

\* bind._run_ddl_visitor(visitor, view): what the traversal of one View
\* executes, given the dispatch tag it reads.
RunVisitor(visitor, id, tag, ok) ==
    LET method == VisitMethod(visitor, tag)
    IN  IF method = "visit_view" THEN visit_view(visitor, id, ok)
        ELSE IF method = "visit_table" THEN visit_table(visitor, id, ok)
        ELSE Ran(<<>>, "none")

VisitorOf(op) == IF op = "create_view" THEN "ExtSchemaGenerator" ELSE "ExtSchemaDropper"

\* The finally clause of View.create_view / View.drop_view.
RestoreTagUnlessRaised(raised) == IF raised = "none" THEN "table" ELSE vtag
RestoreTag(raised) == "table"

(***************** overlapping View.create_view / drop_view ****************)
Threads == 1..NumThreads
IdlePc == [at |-> "idle", view |-> 0, op |-> "none", emitted |-> <<>>, raised |-> "none"]

\* View.__visit_name__ = 'view'
ThreadEnter(t, id, op) ==
    /\ pc[t].at = "idle"
    /\ views[id] # NoView
    /\ vtag' = "view"
    /\ pc' = [pc EXCEPT ![t] = [at |-> "try", view |-> id, op |-> op,
                                emitted |-> <<>>, raised |-> "none"]]
    /\ UNCHANGED <<views, err, out, call, meta, pass, log, session>>

\* bind._run_ddl_visitor(...), inside try
ThreadTraverse(t, ok) ==
    /\ pc[t].at = "try"
    /\ LET ran == RunVisitor(VisitorOf(pc[t].op), pc[t].view, vtag, ok)
       IN  pc' = [pc EXCEPT ![t].at = "finally", ![t].emitted = ran.emitted,
                            ![t].raised = ran.raised]
    /\ UNCHANGED <<views, vtag, err, out, call, meta, pass, log, session>>

\* finally: View.__visit_name__ = 'table', then the return or the raise
ThreadFinally(t) ==
    /\ pc[t].at = "finally"
    /\ vtag' = RestoreTag(pc[t].raised)
    /\ pc' = [pc EXCEPT ![t].at = "idle"]
    /\ err' = pc[t].raised
    /\ UNCHANGED <<views, out, call, meta, pass, log, session>>

\* View i was built by create_view when i is odd, by
\* create_materialized_view when it is even.
RECURSIVE BuildViews(_, _)
BuildViews(w, n) ==
    IF n = 0 THEN w
    ELSE LET b == BuildViews(w, n - 1)
         IN  IF n % 2 = 1
               THEN create_view(b, n, "v1", SelId, TRUE, FALSE, {}, {}, {})
               ELSE create_materialized_view(b, n, "select", SelId, {"ix1"}, {}, {})

ThreadsInit ==
    /\ LET w == BuildViews(World0, NumViews)
       IN  /\ views = w.views
           /\ meta = w.meta
           /\ call = w.call
           /\ err = w.err
    /\ vtag = "table"
    /\ out = NoOut
    /\ pass = NoPass
    /\ log = <<>>
    /\ pc = [t \in Threads |-> IdlePc]
    /\ session = NoSession

ThreadsNext ==
    \/ \E t \in Threads, id \in ViewIds, op \in {"create_view", "drop_view"} : ThreadEnter(t, id, op)
    \/ \E t \in Threads, ok \in BOOLEAN : ThreadTraverse(t, ok)
    \/ \E t \in Threads : ThreadFinally(t)

SpecThreads == ThreadsInit /\ [][ThreadsNext]_vars

InProgress(t) == pc[t].at # "idle"

\* C9: whenever no create or drop call is in progress the dispatch tag of
\* View is "table", whether the calls finished normally or with an error;
\* the tag is "view" only while some call is between its start and its
\* return.
C9_TagRestored ==
    /\ (\A t \in Threads : ~InProgress(t)) => vtag = "table"
    /\ vtag = "view" => \E t \in Threads : InProgress(t)

C9_Witness ==
    /\ \A t \in Threads : ~InProgress(t)
    /\ \E t \in Threads : pc[t].raised = "ExecutionError"
    /\ \E t \in Threads : pc[t].raised = "none" /\ pc[t].emitted # <<>>

\* C10: when create / drop calls overlap, every call still emits view DDL
\* for its own view and never table DDL.
C10_NoTableDDL ==
    \A t \in Threads :
        \A i \in DOMAIN pc[t].emitted :
            /\ pc[t].emitted[i].stmt \in {"CreateView", "DropView"}
            /\ pc[t].emitted[i].target = ViewObj(pc[t].view)

(************** create_all / drop_all over the container *******************)
\* View.create_view / View.drop_view run by one thread from start to return:
\* the tag is set, the visitor traverses the view reading the tag just set,
\* the tag is restored.
ViewMethod(op, id, ok) == RunVisitor(VisitorOf(op), id, "view", ok)

\* A listener the factories registered, called with the pass's connection.
RunHook(hook, ok) ==
    IF hook.fn = "create_indexes"
      THEN LET idx == SetToSeq(views[hook.view].indexes)
           IN  IF idx = <<>> THEN Ran(<<>>, "none")
               ELSE IF ok THEN Ran([i \in DOMAIN idx |-> Stmt("CreateIndex", IndexObj(idx[i]))], "none")
               ELSE Ran(<<Stmt("CreateIndex", IndexObj(idx[1]))>>, "ExecutionError")
      ELSE ViewMethod(hook.fn, hook.view, ok)

\* What the generic SchemaGenerator / SchemaDropper of the pass executes for
\* one member of the container: a base table, or a View entity dispatched on
\* the tag it carries.
RunMember(kind, obj, ok) ==
    IF obj.kind = "table"
      THEN Ran(<<Stmt(IF kind = "create" THEN "CreateTable" ELSE "DropTable", obj)>>,
               IF ok THEN "none" ELSE "ExecutionError")
      ELSE RunVisitor(IF kind = "create" THEN "SchemaGenerator" ELSE "SchemaDropper",
                      obj.id, vtag, ok)

\* The pass moves on when a stage has nothing left: the before listeners,
\* then the members, then the after listeners.
RECURSIVE Advance(_)
Advance(p) ==
    IF p.stage = "before" /\ p.hooks = <<>>
      THEN Advance([p EXCEPT !.stage = "members"])
    ELSE IF p.stage = "members" /\ p.todo = {}
      THEN Advance([p EXCEPT !.stage = "after",
                             !.hooks = IF p.kind = "create" THEN meta.after_create ELSE <<>>])
    ELSE IF p.stage = "after" /\ p.hooks = <<>>
      THEN [p EXCEPT !.stage = "done"]
    ELSE p

Registered == {meta.before_drop[i].view : i \in DOMAIN meta.before_drop}

\* metadata.create_all(bind) / metadata.drop_all(bind): the log is that of
\* the pass.
StartPass(kind) ==
    /\ Idle
    /\ pass' = Advance([kind |-> kind, stage |-> "before",
                        hooks |-> IF kind = "create" THEN <<>> ELSE meta.before_drop,
                        todo |-> {TableObj(n) : n \in meta.tables}
                                   \cup {ViewObj(i) : i \in meta.members},
                        registered |-> Registered,
                        members |-> meta.members])
    /\ log' = <<>>
    /\ err' = "none"
    /\ UNCHANGED <<views, vtag, out, call, meta, pc, session>>

\* The statements of one step join the log; an exception ends the pass.
Finish(ran, p) ==
    /\ log' = log \o ran.emitted
    /\ err' = ran.raised
    /\ pass' = IF ran.raised = "none" THEN Advance(p) ELSE [p EXCEPT !.stage = "raised"]
    /\ UNCHANGED <<views, out, call, meta, pc, session>>

PassListener(ok) ==
    /\ pass.stage \in {"before", "after"}
    /\ pass.hooks # <<>>
    /\ Finish(RunHook(Head(pass.hooks), ok), [pass EXCEPT !.hooks = Tail(@)])
    /\ vtag' = IF Head(pass.hooks).fn = "create_indexes" THEN vtag
               ELSE RestoreTag(RunHook(Head(pass.hooks), ok).raised)

PassMember(obj, ok) ==
    /\ pass.stage = "members"
    /\ obj \in pass.todo
    /\ Finish(RunMember(pass.kind, obj, ok), [pass EXCEPT !.todo = @ \ {obj}])
    /\ UNCHANGED vtag

\* sa.Table(name, metadata, ...)
AddTable(name) ==
    /\ Idle
    /\ name \notin meta.tables
    /\ meta' = [meta EXCEPT !.tables = @ \cup {name}]
    /\ UNCHANGED <<views, vtag, err, out, call, pass, log, pc, session>>

TableNames == {"t1", "t2"}

LifecycleNext ==
    \/ \E n \in TableNames : AddTable(n)
    \/ \E id \in ViewIds, c \in BOOLEAN : CallCreateView(id, "v1", SelId, c, FALSE, {}, {}, {})
    \/ \E id \in ViewIds : CallCreateMaterializedView(id, "select", SelId, {"ix1"}, {}, {})
    \/ \E id \in ViewIds : CallFromSelectable(id, "v1", SelId, {}, "container", {}, FALSE, FALSE, {})
    \/ \E k \in {"create", "drop"} : StartPass(k)
    \/ \E ok \in BOOLEAN : PassListener(ok)
    \/ \E n \in TableNames, ok \in BOOLEAN : PassMember(TableObj(n), ok)
    \/ \E id \in ViewIds, ok \in BOOLEAN : PassMember(ViewObj(id), ok)

SpecLifecycle == InitCommon /\ [][LifecycleNext]_vars

IsBaseTable(e) == e.target.kind = "table"
IsViewCreate(e, id) ==
    \/ e.stmt = "CreateView" /\ e.target = ViewObj(id)
    \/ e.stmt = "CreateIndex" /\ e.target.name \in views[id].indexes
IsViewDrop(e, id) == e.stmt = "DropView" /\ e.target = ViewObj(id)

\* The create half of C1: in a create-all pass no CREATE of a base table
\* follows the CREATE of a registered view or of one of its indexes.
C1_CreateOrder ==
    pass.kind = "create" =>
        \A id \in pass.registered : \A i \in DOMAIN log : \A j \in DOMAIN log :
            (IsViewCreate(log[i], id) /\ IsBaseTable(log[j])) => j < i

C1_CreateWitness ==
    /\ pass.kind = "create" /\ pass.stage = "done"
    /\ \E id \in pass.registered : \E i \in DOMAIN log : \E j \in DOMAIN log : \E k \in DOMAIN log :
          /\ log[i].stmt = "CreateView" /\ log[i].target = ViewObj(id)
          /\ log[k].stmt = "CreateIndex" /\ log[k].target.name \in views[id].indexes
          /\ IsBaseTable(log[j])

\* C1: every create-all pass over a container with a view registered by
\* create_view / create_materialized_view emits the view's CREATE and its
\* indexes' CREATE only after the CREATE of all base tables, and every
\* drop-all pass emits the view's DROP before the DROP of any base table.
C1_HookOrder ==
    /\ C1_CreateOrder
    /\ pass.kind = "drop" =>
          /\ \A id \in pass.registered : \A i \in DOMAIN log : \A j \in DOMAIN log :
                (IsViewDrop(log[i], id) /\ IsBaseTable(log[j])) => i < j
          /\ (pass.stage # "before" /\ err # "ExecutionError") =>
                \A id \in pass.registered : \E i \in DOMAIN log : IsViewDrop(log[i], id)

\* C8: in a create-all / drop-all traversal over a container holding tables
\* and View entities, every View receives CREATE VIEW / DROP VIEW and never
\* table DDL, and every ordinary table receives table DDL.
C8_KindSpecificDDL ==
    /\ \A i \in DOMAIN log :
          /\ log[i].target.kind = "view" => log[i].stmt \in {"CreateView", "DropView"}
          /\ log[i].target.kind = "table" => log[i].stmt \in {"CreateTable", "DropTable"}
    /\ (pass.kind # "none" /\ pass.stage = "done") =>
          \A id \in pass.members : \E i \in DOMAIN log :
              log[i].target = ViewObj(id) /\ log[i].stmt \in {"CreateView", "DropView"}

====
